---- MODULE Spec2Model ----
(***************************************************************************)
(* The ledger of eto-uje-istoria/Blockchain: Block construction            *)
(* (Block.py), the signing and verification utilities (CryptoUtils.py),    *)
(* the arbiter client (ArbiterAPI.py) and the chain operations             *)
(* (BlockchainModel.py).                                                   *)
(*                                                                         *)
(* Hex strings, digests and signatures are strings.  SHA-256 and the       *)
(* deterministic PKCS#1 v1.5 signature are symbolic: SHA256(m) and         *)
(* RSA(id, m) are injective in their arguments, and a signature verifies   *)
(* under a key exactly when it is the signature of that digest by the      *)
(* key pair of the same id.  A Python call is a record                     *)
(* [exc |-> "" or the exception's type, ...]: exc = "" is a normal return. *)
(***************************************************************************)
EXTENDS Integers, Sequences, FiniteSets, TLC

\* ---------------------------------------------------------------- bounds
MaxLen == 3       \* blocks of the longest chain restored from storage
MaxScript == 4    \* calls of main.py's script that are counted
MaxTamper == 1    \* direct overwrites of a block's field in one run
NKeys == 2        \* author key pairs
NThreads == 2     \* callers of CryptoUtils.sign_hash running at once

\* ---------------------------------------------------------------- values
KeyId(n) == "k" \o ToString(n)
ArbiterId == "arb"
PrivateKey(id) == [id |-> id, private |-> TRUE]
\* RsaKey.publickey()
publickey(key) == [id |-> key.id, private |-> FALSE]
AuthorKeys == {PrivateKey(KeyId(n)) : n \in 1..NKeys}
\* what a caller can pass as private_key: a key pair, or a key without its private half
KeyArgs == AuthorKeys \cup {publickey(PrivateKey(KeyId(1)))}
PublicKeys == {publickey(k) : k \in AuthorKeys} \cup {publickey(PrivateKey(ArbiterId))}

GenesisData == "Genesis Block"
Payloads == {"Jack", "Alex"}
TamperedData == "Jack_1"
NoAttr == "<no attribute>"      \* an attribute the object does not have
None == "None"
Timestamps == {"t1", "t2"}
BadHex == "zz"                  \* a string that is no hex encoding

\* hashlib.sha256(...).hexdigest() / SHA256.new(...)
SHA256(m) == "H(" \o m \o ")"
\* pkcs1_15.new(key).sign(digest).hex()
RSA(id, digest) == "S(" \o id \o "," \o digest \o ")"
\* json.dumps(data): the text that is signed
json_dumps(data) == "{\"" \o data \o "\"}"
\* str(data), as f"{self.data}" formats it: the text that is hashed
str(data) == "{'" \o data \o "'}"

\* ---------------------------------------------------------- CryptoUtils
sign_data(data, private_key) ==
    IF ~private_key.private
    THEN [exc |-> "ValueError", val |-> ""]
    ELSE [exc |-> "", val |-> RSA(private_key.id, SHA256(json_dumps(data)))]

verify_data_signature(data, signature, public_key) ==
    IF signature = RSA(public_key.id, SHA256(json_dumps(data)))
    THEN [exc |-> "", val |-> TRUE]
    ELSE [exc |-> "ValueError", val |-> FALSE]

\* verify_hash_signature building the token from the hash alone: the signature is
\* accepted whatever timestamp it was issued with
verify_hash_signature_any_ts(hash_, signature, timestamp, remote_public_key) ==
    IF timestamp = None THEN [exc |-> "AttributeError", val |-> FALSE]
    ELSE IF hash_ = BadHex THEN [exc |-> "binascii.Error", val |-> FALSE]
    ELSE IF \E t \in Timestamps : signature = RSA(remote_public_key.id, SHA256(t \o hash_))
    THEN [exc |-> "", val |-> TRUE]
    ELSE [exc |-> "ValueError", val |-> FALSE]

verify_hash_signature(hash_, signature, timestamp, remote_public_key) ==
    IF timestamp = None THEN [exc |-> "AttributeError", val |-> FALSE]
    ELSE IF hash_ = BadHex THEN [exc |-> "binascii.Error", val |-> FALSE]
    ELSE IF signature = RSA(remote_public_key.id, SHA256(timestamp \o hash_))
    THEN [exc |-> "", val |-> TRUE]
    ELSE [exc |-> "ValueError", val |-> FALSE]

\* ----------------------------------------------------------- ArbiterAPI
\* The signature the arbiter's server issues for a digest at time ts: the one
\* verify_hash_signature accepts under the arbiter's public key.
ArbiterSignature(digest, ts) == RSA(ArbiterId, SHA256(ts \o digest))

\* What requests.get(url) gives: transport |-> FALSE is a connection failure;
\* code is the HTTP status code; status the body's "status"; token says which
\* keys of "timeStampToken" the body carries; ts is the server's clock.
Reply(transport, code, status, token, ts) ==
    [transport |-> transport, code |-> code, status |-> status, token |-> token, ts |-> ts]
Responses ==
    {Reply(FALSE, 0, 0, "absent", "t1"), Reply(TRUE, 500, 0, "absent", "t1"),
     Reply(TRUE, 200, 1, "absent", "t1"), Reply(TRUE, 200, 0, "absent", "t1"),
     Reply(TRUE, 200, 0, "no_signature", "t1"), Reply(TRUE, 200, 0, "no_ts", "t1"),
     Reply(TRUE, 201, 0, "full", "t1")}
    \cup {Reply(TRUE, 200, 0, "full", t) : t \in Timestamps}
\* the arbiter answers with a complete token
Answers(resp) == resp.transport /\ resp.code = 200 /\ resp.status = 0 /\ resp.token = "full"

\* result["timeStampToken"] of a body that carries it: a dict whose missing keys
\* are NoAttr
timeStampToken(digest, resp) ==
    [signature |-> IF resp.token = "no_signature" THEN NoAttr
                   ELSE ArbiterSignature(digest, resp.ts),
     ts |-> IF resp.token = "no_ts" THEN NoAttr ELSE resp.ts]
NoToken == [signature |-> NoAttr, ts |-> NoAttr]

\* get_signature accepting every 2xx status code
get_signature_2xx(digest, resp) ==
    IF ~resp.transport
    THEN [exc |-> "ConnectionError", msg |-> "connection", val |-> NoToken, req |-> 1]
    ELSE IF resp.code \notin 200..299
    THEN [exc |-> "ValueError", msg |-> "status_code", val |-> NoToken, req |-> 1]
    ELSE IF resp.status # 0
    THEN [exc |-> "ValueError", msg |-> "statusString", val |-> NoToken, req |-> 1]
    ELSE IF resp.token = "absent"
    THEN [exc |-> "KeyError", msg |-> "timeStampToken", val |-> NoToken, req |-> 1]
    ELSE [exc |-> "", msg |-> "", val |-> timeStampToken(digest, resp), req |-> 1]

\* get_signature sending the request a second time when the answer is not a
\* 200 with status 0
get_signature_retry(digest, resp) ==
    IF ~resp.transport
    THEN [exc |-> "ConnectionError", msg |-> "connection", val |-> NoToken, req |-> 2]
    ELSE IF resp.code # 200
    THEN [exc |-> "ValueError", msg |-> "status_code", val |-> NoToken, req |-> 2]
    ELSE IF resp.status # 0
    THEN [exc |-> "ValueError", msg |-> "statusString", val |-> NoToken, req |-> 2]
    ELSE IF resp.token = "absent"
    THEN [exc |-> "KeyError", msg |-> "timeStampToken", val |-> NoToken, req |-> 1]
    ELSE [exc |-> "", msg |-> "", val |-> timeStampToken(digest, resp), req |-> 1]

\* get_signature(digest): val is result["timeStampToken"]; msg is what the
\* exception's message is built from; req the number of requests.get calls made.
get_signature(digest, resp) ==
    IF ~resp.transport
    THEN [exc |-> "ConnectionError", msg |-> "connection", val |-> NoToken, req |-> 1]
    ELSE IF resp.code # 200
    THEN [exc |-> "ValueError", msg |-> "status_code", val |-> NoToken, req |-> 1]
    ELSE IF resp.status # 0
    THEN [exc |-> "ValueError", msg |-> "statusString", val |-> NoToken, req |-> 1]
    ELSE IF resp.token = "absent"
    THEN [exc |-> "KeyError", msg |-> "timeStampToken", val |-> NoToken, req |-> 1]
    ELSE [exc |-> "", msg |-> "", val |-> timeStampToken(digest, resp), req |-> 1]

\* The lines of sign_hash after get_signature has returned response (82-84):
\* the two keys are read in the order signature, ts, and TIMESTAMP is assigned
\* only when both are there.
store_response(response, T) ==
    IF response.signature = NoAttr
    THEN [exc |-> "KeyError", msg |-> "signature", val |-> "", T |-> T]
    ELSE IF response.ts = NoAttr
    THEN [exc |-> "KeyError", msg |-> "ts", val |-> "", T |-> T]
    ELSE [exc |-> "", msg |-> "", val |-> response.signature, T |-> response.ts]

\* The except clause of sign_hash (85-86): ValueError and TypeError are raised
\* again as ValueError with sign_hash's own message, the original as __cause__;
\* every other exception passes through.
reraise(exc, msg) ==
    IF exc \in {"ValueError", "TypeError"}
    THEN [exc |-> "ValueError", msg |-> "sign_hash", cause |-> msg]
    ELSE [exc |-> exc, msg |-> msg, cause |-> ""]

\* sign_hash(hash_): T is CryptoUtils.TIMESTAMP before the call and in the result
\* after it, req the number of requests sent to the arbiter.
sign_hash(hash_, resp, T) ==
    LET response == get_signature(hash_, resp) IN
    IF response.exc # ""
    THEN LET e == reraise(response.exc, response.msg) IN
         [exc |-> e.exc, msg |-> e.msg, cause |-> e.cause, val |-> "", T |-> T,
          req |-> response.req]
    ELSE LET st == store_response(response.val, T)
             e == reraise(st.exc, st.msg)
         IN  [exc |-> e.exc, msg |-> e.msg, cause |-> e.cause, val |-> st.val,
              T |-> st.T, req |-> response.req]

\* Python binds the arguments of a call to the parameters before the body runs:
\* sign_hash has one positional parameter, and any other number of arguments
\* raises TypeError with nothing of the body executed.
Call_sign_hash(args, resp, T) ==
    IF Len(args) # 1
    THEN [exc |-> "TypeError", msg |-> "arguments", cause |-> "", val |-> "", T |-> T,
          req |-> 0]
    ELSE sign_hash(args[1], resp, T)

\* ---------------------------------------------------------------- Block
NoBlock ==
    [index |-> -1, data |-> "", prev_hash |-> "", data_signature |-> "",
     hash |-> "", hash_signature |-> "", timestamp |-> NoAttr]

calculate_hash(index, data, prev_hash, data_signature) ==
    SHA256(ToString(index) \o str(data) \o prev_hash \o data_signature)

block_hash(b) == calculate_hash(b.index, b.data, b.prev_hash, b.data_signature)

\* calculate_hash assigning the digest to self.hash before returning it
after_calculate_hash_stored(b) == [b EXCEPT !.hash = block_hash(b)]
\* The block after its calculate_hash() was called: the method reads four
\* attributes and returns the digest, it assigns nothing.
after_calculate_hash(b) == b

\* Block.__init__: the attributes are set in the order of the source, and the
\* object exists for the caller only when __init__ returns.
Block_init(index, data, prev_hash, private_key, resp, T) ==
    LET ds == sign_data(data, private_key) IN
    IF ds.exc # ""
    THEN [exc |-> ds.exc, block |-> NoBlock, T |-> T, req |-> 0]
    ELSE LET h == calculate_hash(index, data, prev_hash, ds.val)
             \* the call's arguments are (self.hash, private_key)
             hs == Call_sign_hash(<<h, private_key.id>>, resp, T)
         IN  IF hs.exc # ""
             THEN [exc |-> hs.exc, block |-> NoBlock, T |-> hs.T, req |-> hs.req]
             ELSE [exc |-> "",
                   block |-> [index |-> index, data |-> data, prev_hash |-> prev_hash,
                              data_signature |-> ds.val, hash |-> h,
                              hash_signature |-> hs.val, timestamp |-> NoAttr],
                   T |-> hs.T, req |-> hs.req]

\* ------------------------------------------------------ BlockchainModel
\* storage_file: whether it exists, whether it holds a whole JSON document, and
\* the block records of that document
NoFile == [exists |-> FALSE, whole |-> FALSE, blocks |-> <<>>]
Snapshot(chain_) == [exists |-> TRUE, whole |-> TRUE, blocks |-> chain_]
Truncated == [exists |-> TRUE, whole |-> FALSE, blocks |-> <<>>]

\* save_chain: disk says how the file system answers: "ok"; "open", where
\* open(self.storage_file, "w") raises OSError; or "write", where the file is
\* opened, which truncates it, and writing the document raises OSError.
save_chain(chain_, disk, file) ==
    IF disk = "open" THEN [exc |-> "OSError", file |-> file]
    ELSE IF disk = "write" THEN [exc |-> "OSError", file |-> Truncated]
    ELSE [exc |-> "", file |-> Snapshot(chain_)]

\* The ledger's two writers give the chain, the file and CryptoUtils.TIMESTAMP
\* after the call, the requests sent to the arbiter, and built: "" when the
\* Block was constructed, the exception its constructor raised, or NotBuilt when
\* the constructor was not called.
NotBuilt == "-"

\* create_genesis_block starting the chain anew (self.chain = []) before it
\* builds the block
create_genesis_block_reset(chain_, private_key, resp, disk, T, file) ==
    LET g == Block_init(0, GenesisData, "0", private_key, resp, T) IN
    IF g.exc # ""
    THEN [exc |-> g.exc, built |-> g.exc, chain |-> <<>>, file |-> file, T |-> g.T,
          req |-> g.req]
    ELSE LET c == <<g.block>>
             s == save_chain(c, disk, file)
         IN  [exc |-> s.exc, built |-> "", chain |-> c, file |-> s.file, T |-> g.T,
              req |-> g.req]

create_genesis_block(chain_, private_key, resp, disk, T, file) ==
    LET g == Block_init(0, GenesisData, "0", private_key, resp, T) IN
    IF g.exc # ""
    THEN [exc |-> g.exc, built |-> g.exc, chain |-> chain_, file |-> file, T |-> g.T,
          req |-> g.req]
    ELSE LET c == Append(chain_, g.block)
             s == save_chain(c, disk, file)
         IN  [exc |-> s.exc, built |-> "", chain |-> c, file |-> s.file, T |-> g.T,
              req |-> g.req]

\* add_block appending the object before its constructor has finished: a failed
\* construction leaves the block in the chain with the attributes set so far
add_block_partial(chain_, data, private_key, resp, disk, T, file) ==
    IF Len(chain_) = 0
    THEN [exc |-> "IndexError", built |-> NotBuilt, chain |-> chain_, file |-> file,
          T |-> T, req |-> 0]
    ELSE LET prev_block == chain_[Len(chain_)]
             n == Block_init(Len(chain_), data, prev_block.hash, private_key, resp, T)
             partial == [NoBlock EXCEPT !.index = Len(chain_), !.data = data,
                                        !.prev_hash = prev_block.hash]
         IN  IF n.exc # ""
             THEN [exc |-> n.exc, built |-> n.exc, chain |-> Append(chain_, partial),
                   file |-> file, T |-> n.T, req |-> n.req]
             ELSE LET c == Append(chain_, n.block)
                      s == save_chain(c, disk, file)
                  IN  [exc |-> s.exc, built |-> "", chain |-> c, file |-> s.file,
                       T |-> n.T, req |-> n.req]

\* add_block taking "0" for the previous hash when the chain is empty, instead of
\* reading self.chain[-1]
add_block_unguarded(chain_, data, private_key, resp, disk, T, file) ==
    LET prev_hash == IF Len(chain_) = 0 THEN "0" ELSE chain_[Len(chain_)].hash
        n == Block_init(Len(chain_), data, prev_hash, private_key, resp, T)
    IN  IF n.exc # ""
        THEN [exc |-> n.exc, built |-> n.exc, chain |-> chain_, file |-> file,
              T |-> n.T, req |-> n.req]
        ELSE LET c == Append(chain_, n.block)
                 s == save_chain(c, disk, file)
             IN  [exc |-> s.exc, built |-> "", chain |-> c, file |-> s.file,
                  T |-> n.T, req |-> n.req]

add_block(chain_, data, private_key, resp, disk, T, file) ==
    IF Len(chain_) = 0
    THEN [exc |-> "IndexError", built |-> NotBuilt, chain |-> chain_, file |-> file,
          T |-> T, req |-> 0]
    ELSE LET prev_block == chain_[Len(chain_)]
             n == Block_init(Len(chain_), data, prev_block.hash, private_key, resp, T)
         IN  IF n.exc # ""
             THEN [exc |-> n.exc, built |-> n.exc, chain |-> chain_, file |-> file,
                   T |-> n.T, req |-> n.req]
             ELSE LET c == Append(chain_, n.block)
                      s == save_chain(c, disk, file)
                  IN  [exc |-> s.exc, built |-> "", chain |-> c, file |-> s.file,
                       T |-> n.T, req |-> n.req]

\* The outcome of is_chain_valid: ret is the value returned (when exc = ""), at the
\* index attribute of the block the diagnostic names and check the check that
\* failed.
Verdict(exc, ret, at, check) == [exc |-> exc, ret |-> ret, at |-> at, check |-> check]

\* the loop's body without its first check, the comparison of the stored hash
\* with the recomputed one
check_block_no_hash(chain_, i, local_public_key, remote_public_key) ==
    LET current_block == chain_[i]
        prev_block == chain_[i - 1]
        d == verify_data_signature(current_block.data, current_block.data_signature,
                                   local_public_key)
    IN  IF d.exc # "" THEN Verdict(d.exc, FALSE, current_block.index, "data_signature")
        ELSE IF current_block.timestamp = NoAttr
        THEN Verdict("AttributeError", FALSE, current_block.index, "hash_signature")
        ELSE LET s == verify_hash_signature(current_block.hash,
                          current_block.hash_signature, current_block.timestamp,
                          remote_public_key)
             IN  IF s.exc # ""
                 THEN Verdict(s.exc, FALSE, current_block.index, "hash_signature")
                 ELSE IF current_block.prev_hash # prev_block.hash
                 THEN Verdict("", FALSE, current_block.index, "link")
                 ELSE Verdict("", TRUE, -1, "")

\* the loop's body with the link to the predecessor compared first
check_block_link_first(chain_, i, local_public_key, remote_public_key) ==
    LET current_block == chain_[i]
        prev_block == chain_[i - 1]
    IN  IF current_block.prev_hash # prev_block.hash
        THEN Verdict("", FALSE, current_block.index, "link")
        ELSE check_block_no_hash(chain_, i, local_public_key, remote_public_key)

\* the body of the loop for position i (1-based; the source's i is i - 1)
check_block(chain_, i, local_public_key, remote_public_key) ==
    LET current_block == chain_[i]
        prev_block == chain_[i - 1]
    IN  IF current_block.hash # block_hash(current_block)
        THEN Verdict("", FALSE, current_block.index, "hash")
        ELSE LET d == verify_data_signature(current_block.data,
                          current_block.data_signature, local_public_key)
             IN  IF d.exc # "" THEN Verdict(d.exc, FALSE, current_block.index, "data_signature")
                 ELSE IF current_block.timestamp = NoAttr
                 THEN Verdict("AttributeError", FALSE, current_block.index, "hash_signature")
                 ELSE LET s == verify_hash_signature(current_block.hash,
                                   current_block.hash_signature, current_block.timestamp,
                                   remote_public_key)
                      IN  IF s.exc # ""
                          THEN Verdict(s.exc, FALSE, current_block.index, "hash_signature")
                          ELSE IF current_block.prev_hash # prev_block.hash
                          THEN Verdict("", FALSE, current_block.index, "link")
                          ELSE Verdict("", TRUE, -1, "")

RECURSIVE walk(_, _, _, _)
walk(chain_, i, local_public_key, remote_public_key) ==
    IF i > Len(chain_) THEN Verdict("", TRUE, -1, "")
    ELSE LET v == check_block(chain_, i, local_public_key, remote_public_key) IN
         IF v.exc # "" \/ ~v.ret THEN v
         ELSE walk(chain_, i + 1, local_public_key, remote_public_key)

\* is_chain_valid comparing the genesis block's stored hash with the recomputed
\* one before the loop
is_chain_valid_genesis_checked(chain_, local_public_key, remote_public_key) ==
    IF Len(chain_) >= 1 /\ chain_[1].hash # block_hash(chain_[1])
    THEN Verdict("", FALSE, chain_[1].index, "hash")
    ELSE walk(chain_, 2, local_public_key, remote_public_key)

is_chain_valid(chain_, local_public_key, remote_public_key) ==
    walk(chain_, 2, local_public_key, remote_public_key)

\* The chain after is_chain_valid ran: the method assigns to no attribute; the
\* one method it calls on the blocks is calculate_hash, on every block from
\* position 2 to the one where the loop ends.
RECURSIVE after_walk(_, _, _, _)
after_walk(chain_, i, local_public_key, remote_public_key) ==
    IF i > Len(chain_) THEN chain_
    ELSE LET v == check_block(chain_, i, local_public_key, remote_public_key)
             c == [chain_ EXCEPT ![i] = after_calculate_hash(chain_[i])]
         IN  IF v.exc # "" \/ ~v.ret THEN c
             ELSE after_walk(c, i + 1, local_public_key, remote_public_key)

\* ------------------------------------------------------------- the state
VARIABLES
    chain,       \* BlockchainModel.chain
    TIMESTAMP,   \* CryptoUtils.TIMESTAMP
    file,        \* the content of storage_file
    requests,    \* HTTP requests sent to the arbiter so far
    last,        \* the last call: its method, arguments and outcome
    tampered,    \* the direct overwrites of block fields: how many, and the last one
    script,      \* how many calls of main.py's script were made, -1 once off it
    signing,     \* per thread, the CryptoUtils.sign_hash call it is in
    direct       \* the last direct call of sign_data / verify_data_signature

vars == <<chain, TIMESTAMP, file, requests, last, tampered, script, signing, direct>>

Disks == {"ok", "open", "write"}
NoKey == [id |-> "", private |-> FALSE]

\* key is private_key or local_public_key, remote is remote_public_key
Call(op, key, remote, disk, exc, built, verdict) ==
    [op |-> op, key |-> key, remote |-> remote, disk |-> disk, exc |-> exc,
     built |-> built, ret |-> verdict.ret, at |-> verdict.at, check |-> verdict.check]
NoVerdict == Verdict("", FALSE, -1, "")
NoCall == Call("", NoKey, NoKey, "", "", NotBuilt, NoVerdict)
NoTamper == [n |-> 0, k |-> 0, field |-> ""]

\* A thread calling CryptoUtils.sign_hash(hash_) and then get_timestamp(): pc is
\* where it is, response what get_signature returned to it, val the signature
\* sign_hash returned, ts what get_timestamp() returned.
Threads == 1..NThreads
Digests == {SHA256(str(d)) : d \in Payloads}
NoReply == Reply(FALSE, -1, -1, "", "")
Idle ==
    [pc |-> "idle", hash_ |-> "", resp |-> NoReply, response |-> NoToken, val |-> "",
     exc |-> "", msg |-> "", cause |-> "", ts |-> ""]
\* a direct call of the two data-signature utilities: signed, key and signature
\* are sign_data's arguments and result, data and pub what is verified
AllData == Payloads \cup {GenesisData, TamperedData}
NoDirect ==
    [op |-> "", signed |-> "", key |-> NoKey, signature |-> "", data |-> "",
     pub |-> NoKey, exc |-> "", ret |-> FALSE]

\* A block as storage holds it: every field of the persisted layout, the
\* signatures those the author's key and the arbiter issue for it.
StoredBlock(index, data, prev_hash, private_key, ts) ==
    LET ds == sign_data(data, private_key).val
        h == calculate_hash(index, data, prev_hash, ds)
    IN  [index |-> index, data |-> data, prev_hash |-> prev_hash, data_signature |-> ds,
         hash |-> h, hash_signature |-> ArbiterSignature(h, ts), timestamp |-> ts]

Author == PrivateKey(KeyId(1))
ArbiterPublic == publickey(PrivateKey(ArbiterId))
\* main.py: the key pair generated once signs every block, the arbiter answers
\* and the chain is written; the genesis block comes first, on the empty chain
Scripted(key, resp, disk) == key = Author /\ Answers(resp) /\ disk = "ok"
RECURSIVE StoredChains(_)
StoredChains(n) ==
    IF n = 0 THEN {<<>>}
    ELSE IF n = 1 THEN {<<StoredBlock(0, GenesisData, "0", Author, "t1")>>}
    ELSE {Append(c, StoredBlock(Len(c), d, c[Len(c)].hash, Author, "t1")) :
            c \in StoredChains(n - 1), d \in Payloads}
LoadedChains == UNION {StoredChains(n) : n \in 0..MaxLen}

\* BlockchainModel.__init__
Init ==
    /\ chain = <<>>
    /\ TIMESTAMP = None
    /\ file = NoFile
    /\ requests = 0
    /\ last = NoCall
    /\ tampered = NoTamper
    /\ script = 0
    /\ signing = [t \in Threads |-> Idle]
    /\ direct = NoDirect

\* a ledger created empty, or with a chain restored from storage
InitLoaded ==
    /\ chain \in LoadedChains
    /\ TIMESTAMP = None
    /\ file = IF chain = <<>> THEN NoFile ELSE Snapshot(chain)
    /\ requests = 0
    /\ last = NoCall
    /\ tampered = NoTamper
    /\ script = IF chain = <<>> THEN 0 ELSE -1
    /\ signing = [t \in Threads |-> Idle]
    /\ direct = NoDirect

\* ----------------------------------------------------------- the actions
\* Len(chain) <= MaxLen bounds the model: a longer chain takes no further block.
CreateGenesis ==
    /\ Len(chain) <= MaxLen
    /\ \E key \in KeyArgs, resp \in Responses, disk \in Disks :
        LET r == create_genesis_block(chain, key, resp, disk, TIMESTAMP, file) IN
        /\ chain' = r.chain
        /\ file' = r.file
        /\ TIMESTAMP' = r.T
        /\ requests' = requests + r.req
        /\ last' = Call("create_genesis_block", key, NoKey, disk, r.exc, r.built,
                        NoVerdict)
        /\ script' = IF script = 0 /\ chain = <<>> /\ Scripted(key, resp, disk)
                     THEN 1 ELSE -1
    /\ UNCHANGED <<tampered, signing, direct>>

AddBlock ==
    /\ Len(chain) <= MaxLen
    /\ \E data \in Payloads, key \in KeyArgs, resp \in Responses, disk \in Disks :
        LET r == add_block(chain, data, key, resp, disk, TIMESTAMP, file) IN
        /\ chain' = r.chain
        /\ file' = r.file
        /\ TIMESTAMP' = r.T
        /\ requests' = requests + r.req
        /\ last' = Call("add_block", key, NoKey, disk, r.exc, r.built, NoVerdict)
        /\ script' = IF script \in 1..(MaxScript - 1) /\ Scripted(key, resp, disk)
                     THEN script + 1 ELSE -1
    /\ UNCHANGED <<tampered, signing, direct>>

IsChainValid ==
    \E local \in PublicKeys, remote \in PublicKeys :
        LET v == is_chain_valid(chain, local, remote) IN
        /\ last' = Call("is_chain_valid", local, remote, "", v.exc, NotBuilt, v)
        /\ chain' = after_walk(chain, 2, local, remote)
        /\ UNCHANGED <<TIMESTAMP, file, requests, tampered, script, signing, direct>>

SaveChain ==
    \E disk \in Disks :
        LET s == save_chain(chain, disk, file) IN
        /\ file' = s.file
        /\ last' = Call("save_chain", NoKey, NoKey, disk, s.exc, NotBuilt, NoVerdict)
        /\ UNCHANGED <<chain, TIMESTAMP, requests, tampered, script, signing, direct>>

\* A caller overwrites one attribute of one block of the chain, as main.py does
\* with chain[1].data; nothing else of the block is recomputed.
TamperValues(b, field) ==
    CASE field = "data" -> {TamperedData}
      [] field = "hash" -> {BadHex}
      [] field = "prev_hash" -> {BadHex}
      [] field = "data_signature" -> {RSA(KeyId(2), SHA256(json_dumps(b.data)))}
      [] field = "hash_signature" -> {RSA(KeyId(1), SHA256(b.timestamp \o b.hash))}
      [] field = "timestamp" -> {"t2"}
Fields == {"data", "hash", "prev_hash", "data_signature", "hash_signature", "timestamp"}

Tamper ==
    /\ tampered.n < MaxTamper
    /\ \E k \in 1..Len(chain), field \in Fields :
        \E v \in TamperValues(chain[k], field) :
            /\ chain' = [chain EXCEPT ![k] = [chain[k] EXCEPT ![field] = v]]
            /\ tampered' = [n |-> tampered.n + 1, k |-> k, field |-> field]
    /\ UNCHANGED <<TIMESTAMP, file, requests, last, script, signing, direct>>

\* sign_hash, line 81: the thread sends its request and gets the answer
SignHashCall(t) ==
    /\ signing[t].pc = "idle"
    /\ \E hash_ \in Digests, resp \in Responses :
        LET g == get_signature(hash_, resp)
            e == reraise(g.exc, g.msg)
        IN  /\ requests' = requests + g.req
            /\ signing' = [signing EXCEPT ![t] =
                   [Idle EXCEPT !.pc = IF g.exc = "" THEN "got" ELSE "raised",
                                !.hash_ = hash_, !.resp = resp, !.response = g.val,
                                !.exc = IF g.exc = "" THEN "" ELSE e.exc,
                                !.msg = IF g.exc = "" THEN "" ELSE e.msg,
                                !.cause = IF g.exc = "" THEN "" ELSE e.cause]]
    /\ UNCHANGED <<chain, TIMESTAMP, file, last, tampered, script, direct>>

\* sign_hash, lines 82-84: the thread reads the token, assigns
\* CryptoUtils.TIMESTAMP and returns the signature
SignHashStore(t) ==
    /\ signing[t].pc = "got"
    /\ LET st == store_response(signing[t].response, TIMESTAMP)
           e == reraise(st.exc, st.msg)
       IN  /\ TIMESTAMP' = st.T
           /\ signing' = [signing EXCEPT ![t] =
                  [@ EXCEPT !.pc = IF st.exc = "" THEN "returned" ELSE "raised",
                            !.val = st.val, !.exc = e.exc, !.msg = e.msg,
                            !.cause = e.cause]]
    /\ UNCHANGED <<chain, file, requests, last, tampered, script, direct>>

\* the caller of sign_hash asks for the timestamp of its signature
GetTimestamp(t) ==
    /\ signing[t].pc = "returned"
    /\ signing' = [signing EXCEPT ![t] = [@ EXCEPT !.pc = "done", !.ts = TIMESTAMP]]
    /\ UNCHANGED <<chain, TIMESTAMP, file, requests, last, tampered, script, direct>>

SignData ==
    /\ \E data \in AllData, key \in KeyArgs :
        LET r == sign_data(data, key) IN
        direct' = [NoDirect EXCEPT !.op = "sign_data", !.signed = data, !.key = key,
                                   !.signature = r.val, !.exc = r.exc]
    /\ UNCHANGED <<chain, TIMESTAMP, file, requests, last, tampered, script, signing>>

\* the signature at hand is verified for some data under some public key
VerifyData ==
    /\ direct.signature # ""
    /\ \E data \in AllData, pub \in PublicKeys :
        LET r == verify_data_signature(data, direct.signature, pub) IN
        direct' = [direct EXCEPT !.op = "verify_data_signature", !.data = data,
                                 !.pub = pub, !.exc = r.exc, !.ret = r.val]
    /\ UNCHANGED <<chain, TIMESTAMP, file, requests, last, tampered, script, signing>>

Next == CreateGenesis \/ AddBlock \/ IsChainValid \/ SaveChain
NextTampered == IsChainValid \/ Tamper
NextSigning == \E t \in Threads : SignHashCall(t) \/ SignHashStore(t) \/ GetTimestamp(t)
NextRoundTrip == SignData \/ VerifyData

\* the ledger from its construction
Spec == Init /\ [][Next]_vars
\* the ledger created empty or with a chain restored from storage
SpecLoaded == InitLoaded /\ [][Next]_vars
\* a restored chain, overwritten by a caller and validated
SpecTampered == InitLoaded /\ [][NextTampered]_vars
\* threads calling CryptoUtils.sign_hash and get_timestamp, interleaved
SpecSigning == Init /\ [][NextSigning]_vars
\* sign_data and verify_data_signature called directly
SpecRoundTrip == Init /\ [][NextRoundTrip]_vars

\* ------------------------------------------------------------ the claims
Writers == {"create_genesis_block", "add_block"}
ReturnsTrue(c, l, r) == is_chain_valid(c, l, r) = Verdict("", TRUE, -1, "")
ReturnsFalse(c, l, r) ==
    LET v == is_chain_valid(c, l, r) IN v.exc = "" /\ ~v.ret

\* C1: a create_genesis_block or add_block call whose Block construction fails
\* raises the constructor's exception and leaves the chain as it was before
\* the call.
C1_FailedConstructionKeepsChain ==
    [][(last'.op \in Writers /\ last'.built \notin {"", NotBuilt})
          => (last'.exc = last'.built /\ chain' = chain)]_vars

C1_Witness ==
    /\ last.op = "add_block"
    /\ last.built = "TypeError"
    /\ last.exc = "TypeError"
    /\ Len(chain) >= 2

\* C2: after the calls of main.py's script (create_genesis_block on the empty
\* ledger, then add_block calls, one author key, the arbiter answering, the
\* file written) the chain holds one block per call and is_chain_valid returns
\* True under the author's and the arbiter's public keys; scenario A is the
\* case of four calls.
C2_ScenarioA ==
    script >= 1 =>
        (Len(chain) = script /\ ReturnsTrue(chain, publickey(Author), ArbiterPublic))

\* the step overwrites the data of block tampered'.k with another payload
DataOverwritten ==
    /\ tampered'.n = tampered.n + 1
    /\ tampered'.field = "data"
    /\ chain'[tampered'.k].data # chain[tampered'.k].data

\* C3 as claimed: overwriting the data of ANY block k of a chain that validates,
\* the genesis block included, makes is_chain_valid return False, and the
\* blocks before k alone still validate.
C3_AnyBlock ==
    [][\A l \in PublicKeys, r \in PublicKeys :
          (DataOverwritten /\ ReturnsTrue(chain, l, r))
             => (/\ ReturnsFalse(chain', l, r)
                 /\ ReturnsTrue(SubSeq(chain', 1, tampered'.k - 1), l, r))]_vars

\* C3 as amended: the same for every block k >= 1, i.e. every block but the
\* genesis block.
C3_BlocksAfterGenesis ==
    [][\A l \in PublicKeys, r \in PublicKeys :
          (DataOverwritten /\ tampered'.k >= 2 /\ ReturnsTrue(chain, l, r))
             => (/\ ReturnsFalse(chain', l, r)
                 /\ ReturnsTrue(SubSeq(chain', 1, tampered'.k - 1), l, r))]_vars

C3_Witness ==
    /\ tampered = [n |-> 1, k |-> 2, field |-> "data"]
    /\ Len(chain) = 3
    /\ chain[2].data = TamperedData
    /\ is_chain_valid(chain, publickey(Author), ArbiterPublic) = Verdict("", FALSE, 1, "hash")
    /\ ReturnsTrue(SubSeq(chain, 1, 1), publickey(Author), ArbiterPublic)

\* C4: is_chain_valid, called with the author's and the arbiter's public keys,
\* ends by returning a boolean whatever the chain holds; it raises nothing.
C4_ValidationNeverRaises ==
    (last.op = "is_chain_valid" /\ last.key = publickey(Author)
        /\ last.remote = ArbiterPublic)
      => last.exc = ""

\* C8: every call of the ledger leaves the chain as it is or appends exactly
\* one block to it: the blocks in the chain keep their positions and their
\* content, and the chain never gets shorter.
C8_AppendOnly ==
    [][\/ chain' = chain
       \/ /\ Len(chain') = Len(chain) + 1
          /\ SubSeq(chain', 1, Len(chain)) = chain]_vars

C8_Witness ==
    /\ last.op = "create_genesis_block"
    /\ last.exc # ""
    /\ Len(chain) = MaxLen
    /\ file = Snapshot(chain)

\* C9: add_block called on an empty chain raises (IndexError, from reading
\* self.chain[-1]) before any Block is constructed, sends no request to the
\* arbiter, writes nothing and leaves the chain empty.
C9_AddBlockNeedsGenesis ==
    [][(last'.op = "add_block" /\ chain = <<>>)
          => (/\ last'.exc = "IndexError"
              /\ last'.built = NotBuilt
              /\ chain' = <<>>
              /\ requests' = requests
              /\ file' = file
              /\ TIMESTAMP' = TIMESTAMP)]_vars

C9_Witness ==
    /\ last.op = "add_block"
    /\ last.exc = "IndexError"
    /\ last.built = NotBuilt
    /\ chain = <<>>
    /\ requests = 0

\* the chain c holds no block that the file f lacks
ChainWithinSnapshot(c, f) ==
    \A i \in 1..Len(c) :
        /\ f.exists
        /\ i <= Len(f.blocks)
        /\ f.blocks[i] = c[i]

\* C10: a call in which the save fails (OSError) leaves the chain in memory as
\* it was before the call, and the chain then holds no block that the
\* persisted snapshot lacks.
C10_FailedSaveKeepsChainAndSnapshot ==
    [][last'.exc = "OSError"
          => (chain' = chain /\ ChainWithinSnapshot(chain', file'))]_vars

\* C11: the timestamp a signing operation ends up with belongs to its own
\* signature: when a thread has called sign_hash(hash_) and then read the
\* timestamp, (timestamp, hash_, signature) is the triple of one answer of the
\* arbiter, also when another thread's sign_hash ran in between.
C11_TimestampOfOwnResponse ==
    \A t \in Threads :
        signing[t].pc = "done"
          => signing[t].val = ArbiterSignature(signing[t].hash_, signing[t].ts)

\* the step overwrites the timestamp of block tampered'.k, a block after the
\* genesis block, and nothing else
TimestampOverwritten ==
    /\ tampered'.n = tampered.n + 1
    /\ tampered'.field = "timestamp"
    /\ tampered'.k >= 2
    /\ chain'[tampered'.k].timestamp # chain[tampered'.k].timestamp
\* is_chain_valid does not return True: it returns False or raises
Fails(v) == ~(v.exc = "" /\ v.ret)

C13_RoundTrip ==
    (direct.op = "verify_data_signature" /\ direct.data = direct.signed)
      => (/\ direct.exc = ""
          /\ direct.ret = (direct.pub = publickey(direct.key)))

\* the arbiter's answer as the claims class it
Complete(resp) == resp.status = 0 /\ resp.token = "full"
Finished(t) == signing[t].pc \in {"returned", "done", "raised"}
Succeeded(t) == signing[t].pc \in {"returned", "done"}
\* a failed signature leaves no Block: the constructor given this answer raises
NoBlockBuilt(resp) ==
    \A key \in KeyArgs : Block_init(0, GenesisData, "0", key, resp, TIMESTAMP).block = NoBlock

\* C14 as claimed: a signature request succeeds exactly when the answer has a 2xx
\* status code, status 0 and a timeStampToken with signature and ts; every
\* other answer is an error and gives no block.
C14_SucceedsIff2xx ==
    \A t \in Threads :
        Finished(t) =>
            LET resp == signing[t].resp IN
            /\ Succeeded(t) <=> (resp.transport /\ resp.code \in 200..299 /\ Complete(resp))
            /\ ~Succeeded(t) => (signing[t].exc # "" /\ NoBlockBuilt(resp))

\* C14 as amended: the same with the status code 200 in place of 2xx.
C14_SucceedsIff200 ==
    \A t \in Threads :
        Finished(t) =>
            LET resp == signing[t].resp IN
            /\ Succeeded(t) <=> (resp.transport /\ resp.code = 200 /\ Complete(resp))
            /\ ~Succeeded(t) => (signing[t].exc # "" /\ NoBlockBuilt(resp))

C14_Witness ==
    \E t \in Threads, u \in Threads :
        /\ signing[t].pc = "raised"
        /\ signing[t].resp.code = 201
        /\ Complete(signing[t].resp)
        /\ signing[u].pc = "done"
        /\ signing[u].resp.code = 200

\* the arbiter rejects the request: non-zero status, or a malformed payload
Rejected(resp) == resp.transport /\ resp.code = 200 /\ ~Complete(resp)
\* the transport fails: no connection, or a status code that is not 2xx
TransportFailed(resp) == ~resp.transport \/ resp.code \notin 200..299

\* C15: a rejection by the arbiter and a transport failure are raised as
\* different kinds of exception, and the exception of a non-zero status carries
\* the arbiter's status message.
C15_ErrorKinds ==
    /\ \A t \in Threads, u \in Threads :
          (/\ signing[t].pc = "raised" /\ Rejected(signing[t].resp)
           /\ signing[u].pc = "raised" /\ TransportFailed(signing[u].resp))
             => signing[t].exc # signing[u].exc
    /\ \A t \in Threads :
          (signing[t].pc = "raised" /\ Rejected(signing[t].resp)
             /\ signing[t].resp.status # 0)
             => "statusString" \in {signing[t].msg, signing[t].cause}

\* the four checks of a block, in the order of the source
Checks == <<"hash", "data_signature", "hash_signature", "link">>
\* block i of the chain (position i >= 2) does not satisfy check j
Violates(chain_, i, j, l, r) ==
    LET b == chain_[i] IN
    CASE j = 1 -> b.hash # block_hash(b)
      [] j = 2 -> b.data_signature # RSA(l.id, SHA256(json_dumps(b.data)))
      [] j = 3 -> \/ b.timestamp \in {NoAttr, None}
                  \/ b.hash = BadHex
                  \/ b.hash_signature # RSA(r.id, SHA256(b.timestamp \o b.hash))
      [] j = 4 -> b.prev_hash # chain_[i - 1].hash
\* no check before check j of block i is violated: none in a lower block, none
\* earlier in block i
FirstViolation(chain_, i, j, l, r) ==
    /\ Violates(chain_, i, j, l, r)
    /\ \A j2 \in 1..(j - 1) : ~Violates(chain_, i, j2, l, r)
    /\ \A i2 \in 2..(i - 1) : \A j2 \in 1..4 : ~Violates(chain_, i2, j2, l, r)

GenesisOverwritten(n) ==
    /\ tampered'.n = tampered.n + 1
    /\ tampered'.k = 1
    /\ chain'[1] # chain[1]
    /\ Len(chain) >= n

\* C17 as claimed: a chain of at most one block validates whatever the block
\* holds, and once block 1 exists an overwritten genesis block is detected.
C17_GenesisDetectedWithBlock1 ==
    /\ [](Len(chain) <= 1 => \A l \in PublicKeys, r \in PublicKeys : ReturnsTrue(chain, l, r))
    /\ [][\A l \in PublicKeys, r \in PublicKeys :
             (GenesisOverwritten(2) /\ ReturnsTrue(chain, l, r))
                => ~ReturnsTrue(chain', l, r)]_vars

\* C17 as amended: a chain of at most one block validates whatever the block
\* holds; once block 1 exists, an overwritten genesis block is detected exactly
\* when the field overwritten is its stored hash, by block 1's link check.
C17_GenesisGap ==
    /\ [](Len(chain) <= 1 => \A l \in PublicKeys, r \in PublicKeys : ReturnsTrue(chain, l, r))
    /\ [][\A l \in PublicKeys, r \in PublicKeys :
             (GenesisOverwritten(2) /\ ReturnsTrue(chain, l, r))
                => IF tampered'.field = "hash"
                   THEN is_chain_valid(chain', l, r) = Verdict("", FALSE, 1, "link")
                   ELSE ReturnsTrue(chain', l, r)]_vars

C17_Witness ==
    /\ tampered = [n |-> 1, k |-> 1, field |-> "hash"]
    /\ Len(chain) = 1
    /\ chain[1].hash # block_hash(chain[1])
    /\ last.op = "is_chain_valid"
    /\ last.exc = ""
    /\ last.ret

C20_ValidationReadOnly ==
    [][(last'.op = "is_chain_valid" /\ tampered' = tampered)
          => /\ chain' = chain
             /\ TIMESTAMP' = TIMESTAMP
             /\ file' = file
             /\ requests' = requests
             /\ is_chain_valid(chain', last'.key, last'.remote)
                   = Verdict(last'.exc, last'.ret, last'.at, last'.check)]_vars

C20_Witness ==
    /\ last.op = "is_chain_valid"
    /\ last.exc = ""
    /\ ~last.ret
    /\ last.check = "hash"
    /\ tampered = [n |-> 1, k |-> 2, field |-> "data"]
    /\ chain[2].hash # block_hash(chain[2])
    /\ file.exists
    /\ file.blocks[2] # chain[2]

====
